---- MODULE Spec2Model ----
(***************************************************************************)
(* Model of epicsArchiveConfig.py: the EPICS database parser that collects *)
(* the info(archive, ...) attributes of every record and builds the        *)
(* archive-engine channel list under one Default_Group.                    *)
(*                                                                         *)
(* A Python string is modelled as the sequence of its characters, each a   *)
(* one-character TLA+ string, so that the regular expressions, rstrip,     *)
(* split and lower are computed character by character as the code does.   *)
(* Lines are modelled without their terminating newline: every pattern     *)
(* ends before it and "." never matches it.  stdout holds the diagnostic   *)
(* messages only (not the argument echo and the XML dump), followed by the *)
(* name of the exception when the interpreter ends on an uncaught one.     *)
(***************************************************************************)
EXTENDS Integers, Sequences, FiniteSets, TLC

VARIABLES argv, pc, outputFilename, f, line, eRecord, recList, group, bi, bj,
          stdout, exitCode, outputFile

vars == <<argv, pc, outputFilename, f, line, eRecord, recList, group, bi, bj,
          stdout, exitCode, outputFile>>

-----------------------------------------------------------------------------
(* Bounds of the model.                                                    *)

MaxLines == 4

MaxPathLen == 4

MaxPad == 1

MaxTrail == 3

-----------------------------------------------------------------------------
(* Python values.                                                          *)

(* None where a string is expected: a text no string equals.               *)
None == <<"None">>

(* None where a list of strings is expected (self.properties): a value no  *)
(* result of split equals, split never yielding an empty word.             *)
NoneList == <<<<>>>>

Running == -1

(* The result of a failed re match (a match object that is false).         *)
NoMatch == [ok |-> FALSE]

SetMax(S) == CHOOSE x \in S : \A y \in S : y <= x

SetMin(S) == CHOOSE x \in S : \A y \in S : x <= y

SubStr(s, a, b) == [k \in 1..(IF b >= a THEN b - a + 1 ELSE 0) |-> s[a + k - 1]]

CharAt(s, i) == IF i >= 1 /\ i <= Len(s) THEN s[i] ELSE "EOS"

(* The vertical tab, "\v" in Python: the character of code 11.             *)
VTab == ""

(* \s of re on a str, and the separators of str.split().                   *)
Whitespace == {" ", "\t", "\n", "\r", "\f", VTab}

(* A character of the input is a byte, named here by the Latin-1 character *)
(* of the same code.  NonAscii holds the bytes of codes 128 to 255, in the *)
(* order of their codes: those the ascii codec cannot decode.  Every other *)
(* character is a byte of code 0 to 127, which the codec decodes.          *)
NonAscii ==
    {"", "", "", "", "", "", "", "", "", "", "", "", "", "", "", "",
     "", "", "", "", "", "", "", "", "", "", "", "", "", "", "", "",
     " ", "¡", "¢", "£", "¤", "¥", "¦", "§", "¨", "©", "ª", "«", "¬", "­", "®", "¯",
     "°", "±", "²", "³", "´", "µ", "¶", "·", "¸", "¹", "º", "»", "¼", "½", "¾", "¿",
     "À", "Á", "Â", "Ã", "Ä", "Å", "Æ", "Ç", "È", "É", "Ê", "Ë", "Ì", "Í", "Î", "Ï",
     "Ð", "Ñ", "Ò", "Ó", "Ô", "Õ", "Ö", "×", "Ø", "Ù", "Ú", "Û", "Ü", "Ý", "Þ", "ß",
     "à", "á", "â", "ã", "ä", "å", "æ", "ç", "è", "é", "ê", "ë", "ì", "í", "î", "ï",
     "ð", "ñ", "ò", "ó", "ô", "õ", "ö", "÷", "ø", "ù", "ú", "û", "ü", "ý", "þ", "ÿ"}

(* A byte of code above 127: 233, e with acute accent in Latin-1.          *)
Eacute == "é"

Digits09 == {"0", "1", "2", "3", "4", "5", "6", "7", "8", "9"}

Digits05 == {"0", "1", "2", "3", "4", "5"}

UpperCase == <<"A", "B", "C", "D", "E", "F", "G", "H", "I", "J", "K", "L", "M",
               "N", "O", "P", "Q", "R", "S", "T", "U", "V", "W", "X", "Y", "Z">>

LowerCase == <<"a", "b", "c", "d", "e", "f", "g", "h", "i", "j", "k", "l", "m",
               "n", "o", "p", "q", "r", "s", "t", "u", "v", "w", "x", "y", "z">>

lowerChar(c) ==
    IF \E k \in 1..26 : UpperCase[k] = c
    THEN LowerCase[CHOOSE k \in 1..26 : UpperCase[k] = c]
    ELSE c

lower(s) == [k \in 1..Len(s) |-> lowerChar(s[k])]

(* \s* taken greedily from position i: the first position not whitespace.  *)
SkipWs(s, i) ==
    SetMin({j \in i..(Len(s) + 1) : CharAt(s, j) \notin Whitespace})

(* A literal of the pattern at position i.                                 *)
Literal(s, i, lit) ==
    /\ i + Len(lit) - 1 <= Len(s)
    /\ \A k \in 1..Len(lit) : s[i + k - 1] = lit[k]

(* A run of character classes of the pattern at position i.                *)
Classes(s, i, cls) ==
    /\ i + Len(cls) - 1 <= Len(s)
    /\ \A k \in 1..Len(cls) : s[i + k - 1] \in cls[k]

(* str.split(): the maximal runs of non-whitespace characters, in order.   *)
RECURSIVE splitFrom(_, _)
splitFrom(s, i) ==
    LET a == SkipWs(s, i)
        b == SetMin({j \in a..(Len(s) + 1) : CharAt(s, j) \in Whitespace \cup {"EOS"}})
    IN  IF a > Len(s) THEN <<>>
        ELSE <<SubStr(s, a, b - 1)>> \o splitFrom(s, b)

split(s) == splitFrom(s, 1)

(* str.rstrip(chars): drops every trailing character that is in chars.     *)
rstrip(s, chars) ==
    LET keep == {n \in 0..Len(s) : n = 0 \/ s[n] \notin chars}
    IN  SubStr(s, 1, SetMax(keep))

-----------------------------------------------------------------------------
(* Text of the program and of the input lines.                             *)

sRecord == <<"r", "e", "c", "o", "r", "d">>

sField == <<"f", "i", "e", "l", "d">>

sInfo == <<"i", "n", "f", "o">>

sArchive == <<"a", "r", "c", "h", "i", "v", "e">>

sDotDb == <<".", "d", "b">>

sArchXml == <<"_", "a", "r", "c", "h", ".", "x", "m", "l">>

Quote == "\""

ModeMonitor == <<{"m", "M"}, {"o", "O"}, {"n", "N"}, {"i", "I"}, {"t", "T"}, {"o", "O"}, {"r", "R"}>>

ModeScan == <<{"s", "S"}, {"c", "C"}, {"a", "A"}, {"n", "N"}>>

PeriodClasses == <<Digits05, Digits09, {":"}, Digits05, Digits09, {":"}, Digits05, Digits09>>

-----------------------------------------------------------------------------
(* The classes of the data model.                                          *)

EpicsRecord(rec_type, rec_name) ==
    [rec_type |-> rec_type, rec_name |-> rec_name, rec_attributes |-> <<>>]

add_attribute(rec, attribute) ==
    [rec EXCEPT !.rec_attributes = Append(@, attribute)]

EpicsRecordAttributes(attr_type, attr_name, attr_value) ==
    [attr_type |-> attr_type, attr_name |-> attr_name, attr_value |-> attr_value,
     mode |-> None, period |-> None, properties |-> NoneList]

(* ARCHPATTERN.match(attr_value): no match, or the three groups.           *)
ARCHPATTERN(v) ==
    LET p1 == SkipWs(v, 1)
        mlen == IF Classes(v, p1, ModeMonitor) THEN 7
                ELSE IF Classes(v, p1, ModeScan) THEN 4 ELSE 0
        p2 == SkipWs(v, p1 + mlen)
        p3 == SkipWs(v, p2 + 1)
        p4 == SkipWs(v, p3 + 8)
        p5 == IF CharAt(v, p4) = "," THEN p4 + 1 ELSE p4
        p6 == SkipWs(v, p5)
    IN  IF mlen > 0 /\ CharAt(v, p2) = "," /\ Classes(v, p3, PeriodClasses)
        THEN [ok |-> TRUE,
              mode |-> SubStr(v, p1, p1 + mlen - 1),
              period |-> SubStr(v, p3, p3 + 7),
              rec_props |-> SubStr(v, p6, Len(v))]
        ELSE NoMatch

(* A variant that stores the split of the trailing group even when the     *)
(* group is empty.                                                         *)
ArchiveAttributeEmptyList(attr_type, attr_name, attr_value) ==
    LET base == EpicsRecordAttributes(attr_type, attr_name, attr_value)
        m == ARCHPATTERN(attr_value)
    IN  IF m.ok
        THEN [base EXCEPT !.mode = m.mode,
                          !.period = m.period,
                          !.properties = split(m.rec_props)]
        ELSE base

ArchiveAttribute(attr_type, attr_name, attr_value) ==
    LET base == EpicsRecordAttributes(attr_type, attr_name, attr_value)
        m == ARCHPATTERN(attr_value)
    IN  IF m.ok
        THEN [base EXCEPT !.mode = m.mode,
                          !.period = m.period,
                          !.properties = IF m.rec_props # <<>> THEN split(m.rec_props) ELSE NoneList]
        ELSE base

(* The message ArchiveAttribute.__init__ prints, if any.                   *)
ArchiveAttributeMessage(attr_value) ==
    IF ARCHPATTERN(attr_value).ok THEN <<>>
    ELSE <<"ERROR! ArchiveAttribute: Invalid info field.">>

-----------------------------------------------------------------------------
(* The two line patterns.                                                  *)

(* "?\s*\) at position t, the tail of RECORD_SIGNATURE after r_name.       *)
RecordTail(s, t) ==
    LET t1 == IF CharAt(s, t) = Quote THEN t + 1 ELSE t
    IN  CharAt(s, SkipWs(s, t1)) = ")"

(* RECORD_SIGNATURE.match(line): no match, or the groups r_type, r_name.  *)
(* r_type is greedy: it ends at the last comma that still has ")" after    *)
(* it; r_name is lazy: it ends at the first place the tail matches.        *)
RECORD_SIGNATURE(s) ==
    LET p1 == SkipWs(s, 1)
        p2 == SkipWs(s, p1 + 6)
        commas == {e \in (p2 + 1)..Len(s) :
                      s[e] = "," /\ \E c \in (e + 1)..Len(s) : s[c] = ")"}
    IN  IF Literal(s, p1, sRecord) /\ CharAt(s, p2) = "(" /\ commas # {}
        THEN LET e == SetMax(commas)
                 q0 == SkipWs(s, e + 1)
                 q == IF CharAt(s, q0) = Quote THEN q0 + 1 ELSE q0
                 t == SetMin({u \in q..Len(s) : RecordTail(s, u)})
             IN  [ok |-> TRUE,
                  r_type |-> SubStr(s, p2 + 1, e - 1),
                  r_name |-> SubStr(s, q, t - 1)]
        ELSE NoMatch

(* The end of attr_value: the first quote at or after u that is followed   *)
(* by \s*\); 0 when there is none.                                         *)
AttributeValueEnd(s, u) ==
    LET ends == {t \in u..Len(s) : s[t] = Quote /\ CharAt(s, SkipWs(s, t + 1)) = ")"}
    IN  IF ends = {} THEN 0 ELSE SetMin(ends)

(* ATTRIBUTE_SIGNATURE.match(line): no match, or attr_type, attr_name and  *)
(* attr_value.  attr_name is greedy: it ends at the last comma after which *)
(* \s*"value"\s*\) still matches.                                          *)
ATTRIBUTE_SIGNATURE(s) ==
    LET p1 == SkipWs(s, 1)
        kind == IF Literal(s, p1, sField) THEN sField
                ELSE IF Literal(s, p1, sInfo) THEN sInfo ELSE <<>>
        p2 == SkipWs(s, p1 + Len(kind))
        p3 == SkipWs(s, p2 + 1)
        commas == {e \in p3..Len(s) :
                      /\ s[e] = ","
                      /\ CharAt(s, SkipWs(s, e + 1)) = Quote
                      /\ AttributeValueEnd(s, SkipWs(s, e + 1) + 1) # 0}
    IN  IF kind # <<>> /\ CharAt(s, p2) = "(" /\ commas # {}
        THEN LET e == SetMax(commas)
                 q == SkipWs(s, e + 1)
             IN  [ok |-> TRUE,
                  attr_type |-> kind,
                  attr_name |-> SubStr(s, p3, e - 1),
                  attr_value |-> SubStr(s, q + 1, AttributeValueEnd(s, q + 1) - 1)]
        ELSE NoMatch

(* re.search of a brace in the line.                                       *)
HasOpenBrace(s) == \E k \in 1..Len(s) : s[k] = "{"

HasCloseBrace(s) == \E k \in 1..Len(s) : s[k] = "}"

-----------------------------------------------------------------------------
(* The input lines the model draws files from.                             *)

lnHeaderBrace == sRecord \o <<"(", "a", "i", ",", " ", Quote, "R", "1", Quote, ")", " ", "{">>

lnHeaderBrace2 == sRecord \o <<"(", " ", "b", "o", " ", ",", " ", "R", "2", " ", ")", " ", "{">>

lnHeader == sRecord \o <<"(", "a", "i", ",", " ", Quote, "R", Eacute, Quote, ")">>

lnOpen == <<"{">>

lnClose == <<"}">>

lnField == sField \o <<"(", "D", "E", "S", "C", ",", " ", Quote, "x", Quote, ")">>

lnInfoOther == sInfo \o <<"(">> \o sArchive \o
    <<" ", ",", " ", Quote, "s", "c", "a", "n", ",", " ",
      "0", "0", ":", "0", "0", ":", "1", "0", Quote, ")">>

lnArchive == sInfo \o <<"(">> \o sArchive \o
    <<",", " ", Quote, "m", "o", "n", "i", "t", "o", "r", ",", " ",
      "0", "0", ":", "0", "0", ":", "1", "0", Quote, ")">>

lnArchiveProps == sInfo \o <<"(">> \o sArchive \o
    <<",", " ", Quote, "S", "c", "a", "n", ",", " ",
      "0", "0", ":", "0", "1", ":", "0", "0", ",", " ", "H", "I", VTab, "L", "O", Quote, ")", " ", "}">>

lnArchiveComma == sInfo \o <<"(">> \o sArchive \o
    <<",", " ", Quote, "M", "O", "N", "I", "T", "O", "R", ",", " ",
      "0", "0", ":", "0", "0", ":", "0", "5", ",", VTab, " ", Quote, ")">>

lnArchiveBad == sInfo \o <<"(">> \o sArchive \o
    <<",", " ", Quote, "m", "o", "n", "i", "t", "o", "r", Quote, ")">>

Pool == {lnHeaderBrace, lnHeaderBrace2, lnHeader, lnOpen, lnClose, lnField,
         lnInfoOther, lnArchiveProps, lnArchiveComma, lnArchiveBad}

Files == UNION {[1..n -> Pool] : n \in 0..MaxLines}

sProg == <<"e", "p", "i", "c", "s">>

sMonitor == <<"m", "o", "n", "i", "t", "o", "r">>

sScan == <<"s", "c", "a", "n">>

sInput == <<"i", "o", "c", ".", "d", "b">>

-----------------------------------------------------------------------------
(* The program.                                                            *)

Unbound == [bound |-> FALSE, lines |-> <<>>, pos |-> 0]

Init ==
    /\ argv \in {<<sProg>>, <<sProg, sInput>>}
    /\ pc = "args"
    /\ outputFilename = None
    /\ f = Unbound
    /\ line = None
    /\ eRecord = None
    /\ recList = <<>>
    /\ group = <<>>
    /\ bi = 0
    /\ bj = 0
    /\ stdout = <<>>
    /\ exitCode = Running
    /\ outputFile = <<>>

(* sys.exit(code), or the interpreter ending on an uncaught exception.     *)
Exit(code, msgs) ==
    /\ pc' = "exited"
    /\ exitCode' = code
    /\ stdout' = stdout \o msgs

(* The except clauses: print, f.close(), sys.exit(2).  f.close() raises    *)
(* NameError when f was never bound, and the interpreter ends with 1.      *)
ExceptHandler ==
    IF f.bound
    THEN Exit(2, <<"Some error happened...">>)
    ELSE Exit(1, <<"Some error happened...", "NameError: name 'f' is not defined">>)

(* if len(sys.argv) < 2 ... outputFilename = ...; recList = []             *)
CheckArgs ==
    /\ pc = "args"
    /\ IF Len(argv) < 2
       THEN /\ Exit(2, <<"Missing input file name!">>)
            /\ UNCHANGED outputFilename
       ELSE /\ outputFilename' = rstrip(argv[2], {".", "d", "b"}) \o sArchXml
            /\ pc' = "open"
            /\ UNCHANGED <<exitCode, stdout>>
    /\ UNCHANGED <<argv, f, line, eRecord, recList, group, bi, bj, outputFile>>

(* f = open(sys.argv[1], 'r') succeeds on a file of some content.          *)
OpenFile ==
    /\ pc = "open"
    /\ \E content \in Files : f' = [bound |-> TRUE, lines |-> content, pos |-> 0]
    /\ pc' = "for"
    /\ UNCHANGED <<argv, outputFilename, line, eRecord, recList, group, bi, bj,
                   stdout, exitCode, outputFile>>

(* open raises IOError.                                                    *)
OpenFails ==
    /\ pc = "open"
    /\ ExceptHandler
    /\ UNCHANGED <<argv, outputFilename, f, line, eRecord, recList, group, bi, bj,
                   outputFile>>

AtEOF == f.pos = Len(f.lines)

NextLine == f.lines[f.pos + 1]

(* for line in f: m = RECORD_SIGNATURE.match(line); if m: eRecord = ...    *)
ForNext ==
    /\ pc = "for"
    /\ ~AtEOF
    /\ line' = NextLine
    /\ f' = [f EXCEPT !.pos = @ + 1]
    /\ LET m == RECORD_SIGNATURE(NextLine)
       IN  IF m.ok
           THEN eRecord' = EpicsRecord(m.r_type, m.r_name) /\ pc' = "while1"
           ELSE UNCHANGED <<eRecord, pc>>
    /\ UNCHANGED <<argv, outputFilename, recList, group, bi, bj, stdout, exitCode,
                   outputFile>>

(* The for loop ends at end of input.                                      *)
ForEnd ==
    /\ pc = "for"
    /\ AtEOF
    /\ pc' = "build"
    /\ UNCHANGED <<argv, outputFilename, f, line, eRecord, recList, group, bi, bj,
                   stdout, exitCode, outputFile>>

(* while not re.search('\{', line): line = f.next()                        *)
While1Next ==
    /\ pc = "while1"
    /\ ~HasOpenBrace(line)
    /\ ~AtEOF
    /\ line' = NextLine
    /\ f' = [f EXCEPT !.pos = @ + 1]
    /\ UNCHANGED <<argv, pc, outputFilename, eRecord, recList, group, bi, bj,
                   stdout, exitCode, outputFile>>

While1Exit ==
    /\ pc = "while1"
    /\ HasOpenBrace(line)
    /\ pc' = "while2"
    /\ UNCHANGED <<argv, outputFilename, f, line, eRecord, recList, group, bi, bj,
                   stdout, exitCode, outputFile>>

(* A variant that keeps every info attribute, whatever its name.           *)
RouteAttributeAnyInfo(rec, m) ==
    IF m.attr_type = sField
    THEN add_attribute(rec, EpicsRecordAttributes(m.attr_type, m.attr_name, m.attr_value))
    ELSE add_attribute(rec, ArchiveAttribute(m.attr_type, m.attr_name, m.attr_value))

(* The routing of one matched attribute line.                              *)
RouteAttribute(rec, m) ==
    IF m.attr_type = sField
    THEN add_attribute(rec, EpicsRecordAttributes(m.attr_type, m.attr_name, m.attr_value))
    ELSE IF m.attr_type = sInfo /\ m.attr_name = sArchive
    THEN add_attribute(rec, ArchiveAttribute(m.attr_type, m.attr_name, m.attr_value))
    ELSE rec

RouteMessage(m) ==
    IF m.attr_type = sInfo /\ m.attr_name = sArchive
    THEN ArchiveAttributeMessage(m.attr_value)
    ELSE <<>>

(* A variant in which a body line of header shape opens a new record.      *)
While2NextReopen ==
    /\ pc = "while2"
    /\ ~HasCloseBrace(line)
    /\ ~AtEOF
    /\ line' = NextLine
    /\ f' = [f EXCEPT !.pos = @ + 1]
    /\ LET m == ATTRIBUTE_SIGNATURE(NextLine)
           h == RECORD_SIGNATURE(NextLine)
       IN  IF h.ok
           THEN /\ eRecord' = EpicsRecord(h.r_type, h.r_name)
                /\ UNCHANGED stdout
           ELSE IF m.ok
           THEN /\ eRecord' = RouteAttribute(eRecord, m)
                /\ stdout' = stdout \o RouteMessage(m)
           ELSE UNCHANGED <<eRecord, stdout>>
    /\ UNCHANGED <<argv, pc, outputFilename, recList, group, bi, bj, exitCode,
                   outputFile>>

(* while not re.search('\}', line): line = f.next(); m = ATTRIBUTE_...     *)
While2Next ==
    /\ pc = "while2"
    /\ ~HasCloseBrace(line)
    /\ ~AtEOF
    /\ line' = NextLine
    /\ f' = [f EXCEPT !.pos = @ + 1]
    /\ LET m == ATTRIBUTE_SIGNATURE(NextLine)
       IN  IF m.ok
           THEN /\ eRecord' = RouteAttribute(eRecord, m)
                /\ stdout' = stdout \o RouteMessage(m)
           ELSE UNCHANGED <<eRecord, stdout>>
    /\ UNCHANGED <<argv, pc, outputFilename, recList, group, bi, bj, exitCode,
                   outputFile>>

(* recList.append(eRecord)                                                 *)
While2Exit ==
    /\ pc = "while2"
    /\ HasCloseBrace(line)
    /\ recList' = Append(recList, eRecord)
    /\ pc' = "for"
    /\ UNCHANGED <<argv, outputFilename, f, line, eRecord, group, bi, bj,
                   stdout, exitCode, outputFile>>

(* A variant in which end of input inside a record ends the parse quietly. *)
ReadEOFSilent ==
    /\ IF pc = "while1" THEN ~HasOpenBrace(line)
       ELSE pc = "while2" /\ ~HasCloseBrace(line)
    /\ AtEOF
    /\ pc' = "build"
    /\ UNCHANGED <<argv, outputFilename, f, line, eRecord, recList, group, bi, bj,
                   stdout, exitCode, outputFile>>

(* f.next() raises StopIteration inside a record: except Exception.        *)
ReadEOF ==
    /\ IF pc = "while1" THEN ~HasOpenBrace(line)
       ELSE pc = "while2" /\ ~HasCloseBrace(line)
    /\ AtEOF
    /\ ExceptHandler
    /\ UNCHANGED <<argv, outputFilename, f, line, eRecord, recList, group, bi, bj,
                   outputFile>>

(* A read is due: the for loop asks for its next line, or a while loop    *)
(* whose line has no brace calls f.next().                                 *)
ReadDue ==
    IF pc = "for" THEN TRUE
    ELSE IF pc = "while1" THEN ~HasOpenBrace(line)
    ELSE pc = "while2" /\ ~HasCloseBrace(line)

(* The read raises IOError (a device error), in the for loop or in         *)
(* f.next(): except Exception.  No line is consumed.                       *)
ReadFails ==
    /\ ReadDue
    /\ ExceptHandler
    /\ UNCHANGED <<argv, outputFilename, f, line, eRecord, recList, group, bi, bj,
                   outputFile>>

-----------------------------------------------------------------------------
(* Build Group Channels.                                                   *)

Channel(name, period, mode) == [name |-> name, period |-> period, mode |-> mode]

(* A variant that names the mode element after the mode as it was typed.   *)
ChannelsOfNoLower(rec, attr) ==
    IF attr.properties = NoneList
    THEN <<Channel(rec.rec_name, attr.period, attr.mode)>>
    ELSE [k \in 1..Len(attr.properties) |->
            Channel(rec.rec_name \o <<".">> \o attr.properties[k],
                    attr.period, attr.mode)]

(* The channels one info attribute appends to the group.                   *)
ChannelsOf(rec, attr) ==
    IF attr.properties = NoneList
    THEN <<Channel(rec.rec_name, attr.period, lower(attr.mode))>>
    ELSE [k \in 1..Len(attr.properties) |->
            Channel(rec.rec_name \o <<".">> \o attr.properties[k],
                    attr.period, lower(attr.mode))]

InnerDone == IF bi = 0 THEN TRUE ELSE bj = Len(recList[bi].rec_attributes)

(* for rec in recList:                                                     *)
BuildRecord ==
    /\ pc = "build"
    /\ InnerDone
    /\ bi < Len(recList)
    /\ bi' = bi + 1
    /\ bj' = 0
    /\ UNCHANGED <<argv, pc, outputFilename, f, line, eRecord, recList, group,
                   stdout, exitCode, outputFile>>

(* for attr in rec.get_attributes(): if attr.get_attribute_type() == ...   *)
BuildAttr ==
    /\ pc = "build"
    /\ ~InnerDone
    /\ LET rec == recList[bi]
           attr == rec.rec_attributes[bj + 1]
       IN  IF attr.attr_type = sInfo
           THEN IF attr.mode = None
                THEN /\ Exit(1, <<"AttributeError: 'NoneType' object has no attribute 'lower'">>)
                     /\ UNCHANGED <<group, bj>>
                ELSE /\ group' = group \o ChannelsOf(rec, attr)
                     /\ bj' = bj + 1
                     /\ UNCHANGED <<pc, exitCode, stdout>>
           ELSE /\ bj' = bj + 1
                /\ UNCHANGED <<group, pc, exitCode, stdout>>
    /\ UNCHANGED <<argv, outputFilename, f, line, eRecord, recList, bi, outputFile>>

(* root.append(group)                                                      *)
BuildEnd ==
    /\ pc = "build"
    /\ InnerDone
    /\ bi = Len(recList)
    /\ pc' = "write"
    /\ UNCHANGED <<argv, outputFilename, f, line, eRecord, recList, group, bi, bj,
                   stdout, exitCode, outputFile>>

sDefaultGroup == <<"D", "e", "f", "a", "u", "l", "t", "_", "G", "r", "o", "u", "p">>

(* etree.dump(root) raises UnicodeDecodeError: the text of a name element  *)
(* holds a byte the ascii codec cannot decode.  The texts of the period    *)
(* elements and the tags are ASCII by the archive pattern.                 *)
DumpRaises ==
    \E k \in 1..Len(group) : \E i \in 1..Len(group[k].name) :
        group[k].name[i] \in NonAscii

(* indent(root); etree.dump(root) outside any try: the exception is not    *)
(* caught, the interpreter ends with code 1 and no file is opened.         *)
DumpFails ==
    /\ pc = "write"
    /\ DumpRaises
    /\ Exit(1, <<"UnicodeDecodeError: 'ascii' codec can't decode byte">>)
    /\ UNCHANGED <<argv, outputFilename, f, line, eRecord, recList, group, bi, bj,
                   outputFile>>

(* The document tree.write produces: the Default_Group and its channels.  *)
(* A file that holds only the first part of it is not complete.            *)
Document(group_name, channels, complete) ==
    [name |-> outputFilename, group_name |-> group_name, channels |-> channels,
     complete |-> complete]

(* What the file can hold when the device refused the data: nothing (also  *)
(* when the file could not be opened), or the document cut at some byte,   *)
(* before the group element or after any number of whole channels.         *)
PartialOutputs ==
    {<<>>, <<Document(<<>>, <<>>, FALSE)>>}
    \cup {<<Document(sDefaultGroup, SubSeq(group, 1, k), FALSE)>> : k \in 0..Len(group)}

(* etree.dump(root) prints the document, then                             *)
(* tree.write(open(outputFilename, 'w'), ...) succeeds and the data reach  *)
(* the file when the file object is destroyed; the script ends.            *)
WriteFile ==
    /\ pc = "write"
    /\ ~DumpRaises
    /\ outputFile' = <<Document(sDefaultGroup, group, TRUE)>>
    /\ pc' = "exited"
    /\ exitCode' = 0
    /\ UNCHANGED <<argv, outputFilename, f, line, eRecord, recList, group, bi, bj,
                   stdout>>

(* tree.write returns with data still in the buffer of the file object,    *)
(* which the script neither flushes nor closes; the device then refuses    *)
(* all or part of the data when the interpreter destroys the object.       *)
(* Nothing is raised in the try, nothing is printed on stdout, the script  *)
(* ends with code 0 and the file holds nothing or a cut document.          *)
WriteLost ==
    /\ pc = "write"
    /\ ~DumpRaises
    /\ outputFile' \in PartialOutputs
    /\ pc' = "exited"
    /\ exitCode' = 0
    /\ UNCHANGED <<argv, outputFilename, f, line, eRecord, recList, group, bi, bj,
                   stdout>>

(* open or write raises: except Exception.  What the device took before    *)
(* it refused the rest stays in the file.                                  *)
WriteFails ==
    /\ pc = "write"
    /\ ~DumpRaises
    /\ outputFile' \in PartialOutputs
    /\ ExceptHandler
    /\ UNCHANGED <<argv, outputFilename, f, line, eRecord, recList, group, bi, bj>>

Next ==
    \/ CheckArgs
    \/ OpenFile
    \/ OpenFails
    \/ ForNext
    \/ ForEnd
    \/ While1Next
    \/ While1Exit
    \/ While2Next
    \/ While2Exit
    \/ ReadEOF
    \/ ReadFails
    \/ BuildRecord
    \/ BuildAttr
    \/ BuildEnd
    \/ DumpFails
    \/ WriteFile
    \/ WriteLost
    \/ WriteFails

Spec == Init /\ [][Next]_vars

-----------------------------------------------------------------------------
(* The output file name alone: the start of the program on any path over   *)
(* a small alphabet.                                                       *)

PathChars == {"a", "d", "b", "."}

Paths == UNION {[1..n -> PathChars] : n \in 1..MaxPathLen}

InitName ==
    /\ argv \in {<<sProg>>} \cup {<<sProg, p>> : p \in Paths}
    /\ pc = "args"
    /\ outputFilename = None
    /\ f = Unbound
    /\ line = None
    /\ eRecord = None
    /\ recList = <<>>
    /\ group = <<>>
    /\ bi = 0
    /\ bj = 0
    /\ stdout = <<>>
    /\ exitCode = Running
    /\ outputFile = <<>>

NextName == CheckArgs

SpecName == InitName /\ [][NextName]_vars

-----------------------------------------------------------------------------
(* The record header alone: the first line of a file is a header           *)
(* record(TYPE, "NAME") or record(TYPE, NAME) with whitespace around the   *)
(* tokens, and the for loop reads it.  One run of blanks or vertical tabs  *)
(* is put at any of the six places where the header takes whitespace.      *)

PadChars == {" ", VTab}

Pads == UNION {[1..n -> PadChars] : n \in 1..MaxPad}

HeaderTypes == {<<"a", "i">>}

HeaderNames == {<<"R", "1">>, <<"a", ",", "b">>, <<"$", "(", "P", ")", "x">>}

HeaderLine(p, ty, q, nm) ==
    p[1] \o sRecord \o p[2] \o <<"(">> \o p[3] \o ty \o p[4] \o <<",">> \o p[5]
         \o q \o nm \o q \o p[6] \o <<")">>

Paddings == UNION {[1..6 -> {<<>>, w}] : w \in Pads}

HeaderLines ==
    {HeaderLine(p, ty, q, nm) :
        p \in Paddings, ty \in HeaderTypes, q \in {<<>>, <<Quote>>}, nm \in HeaderNames}

InitHeader ==
    /\ argv = <<sProg, sInput>>
    /\ pc = "for"
    /\ outputFilename = rstrip(sInput, {".", "d", "b"}) \o sArchXml
    /\ \E h \in HeaderLines : f = [bound |-> TRUE, lines |-> <<h>>, pos |-> 0]
    /\ line = None
    /\ eRecord = None
    /\ recList = <<>>
    /\ group = <<>>
    /\ bi = 0
    /\ bj = 0
    /\ stdout = <<>>
    /\ exitCode = Running
    /\ outputFile = <<>>

NextHeader == ForNext

SpecHeader == InitHeader /\ [][NextHeader]_vars

-----------------------------------------------------------------------------
(* The archive value alone: a record is open on its header line, and its   *)
(* body is two lines then the closing brace.  The first is a field or an   *)
(* archive attribute of the pool; the second is a field or an              *)
(* info(archive, ...) whose value is a mode, a period and any short text   *)
(* over blank, vertical tab, comma, a letter and a byte of code above 127. *)
(* The program runs on from there.                                         *)

TrailChars == {" ", VTab, ",", "A", Eacute}

Trails == UNION {[1..n -> TrailChars] : n \in 0..MaxTrail}

ArchiveValues ==
    {m \o <<",", " ", "0", "0", ":", "0", "0", ":", "1", "0">> \o t :
        m \in {sMonitor, <<"S", "C", "A", "N">>}, t \in Trails}

ArchiveLine(v) == sInfo \o <<"(">> \o sArchive \o <<",", " ", Quote>> \o v \o <<Quote, ")">>

BodyLines == {lnField} \cup {ArchiveLine(v) : v \in ArchiveValues}

FirstLines == {lnField, lnArchive, lnArchiveComma}

InitValues ==
    /\ argv = <<sProg, sInput>>
    /\ pc = "while2"
    /\ outputFilename = rstrip(sInput, {".", "d", "b"}) \o sArchXml
    /\ \E b1 \in FirstLines, b2 \in BodyLines :
          f = [bound |-> TRUE, lines |-> <<lnHeaderBrace, b1, b2, lnClose>>, pos |-> 1]
    /\ line = lnHeaderBrace
    /\ eRecord = EpicsRecord(RECORD_SIGNATURE(lnHeaderBrace).r_type,
                             RECORD_SIGNATURE(lnHeaderBrace).r_name)
    /\ recList = <<>>
    /\ group = <<>>
    /\ bi = 0
    /\ bj = 0
    /\ stdout = <<>>
    /\ exitCode = Running
    /\ outputFile = <<>>

NextValues ==
    \/ While2Next
    \/ While2Exit
    \/ ForEnd
    \/ ReadFails
    \/ BuildRecord
    \/ BuildAttr
    \/ BuildEnd
    \/ DumpFails
    \/ WriteFile
    \/ WriteLost
    \/ WriteFails

SpecValues == InitValues /\ [][NextValues]_vars

-----------------------------------------------------------------------------
(* Properties.                                                             *)

Range(q) == {q[k] : k \in 1..Len(q)}

msgHandler == "Some error happened..."

msgMissing == "Missing input file name!"

FirstIndex(str, c) == SetMin({k \in 1..Len(str) : str[k] = c})

LastIndex(str, c) == SetMax({k \in 1..Len(str) : str[k] = c})

(* The text with the whitespace at both ends removed.                      *)
Stripped(str) ==
    LET ks == {k \in 1..Len(str) : str[k] \notin Whitespace}
    IN  IF ks = {} THEN <<>> ELSE SubSeq(str, SetMin(ks), SetMax(ks))

(* The text without the double quotes that wrap it, if any.                *)
Unquoted(str) ==
    IF Len(str) >= 2 /\ str[1] = Quote /\ str[Len(str)] = Quote
    THEN SubSeq(str, 2, Len(str) - 1)
    ELSE str

(* A run that completed: it ended with code 0 and its output was written.  *)
Written == IF outputFile = <<>> THEN FALSE ELSE outputFile[1].complete

Completed == pc = "exited" /\ exitCode = 0 /\ Written

(* The build loop has gone through every record: the group is complete.    *)
GroupBuilt == pc = "write" \/ (pc = "exited" /\ exitCode = 0)

(* The records that hold attributes: the list and the record being read.   *)
HeldRecords ==
    recList \o (IF pc \in {"while1", "while2"} THEN <<eRecord>> ELSE <<>>)

IsArchive(attr) == attr.attr_type = sInfo

(* The number of whitespace-separated words of a text.                     *)
WordCount(str) ==
    Cardinality({k \in 1..Len(str) :
                    /\ str[k] \notin Whitespace
                    /\ (IF k = 1 THEN TRUE ELSE str[k - 1] \in Whitespace)})

(* The trailing segment of an archive value: what follows the period       *)
(* HH:MM:SS, after blanks, one optional comma and blanks.                  *)
ClaimTrailing(value) ==
    LET rest == Stripped(SubSeq(value, FirstIndex(value, ":") + 6, Len(value)))
    IN  IF rest # <<>> /\ rest[1] = "," THEN Stripped(Tail(rest)) ELSE rest

(* The channels the claim gives one attribute: none for a field, one per   *)
(* property for an archive attribute, one when it has no property.         *)
ClaimCount(attr) ==
    IF ~IsArchive(attr) THEN 0
    ELSE IF WordCount(ClaimTrailing(attr.attr_value)) = 0 THEN 1
    ELSE WordCount(ClaimTrailing(attr.attr_value))

RECURSIVE SumCount(_, _)
SumCount(attrs, n) ==
    IF n = 0 THEN 0 ELSE SumCount(attrs, n - 1) + ClaimCount(attrs[n])

(* The channels due for the attributes the build loop has gone through:    *)
(* all those of the records before bi and the first bj of record bi.       *)
RECURSIVE CountBefore(_)
CountBefore(i) ==
    IF i = 0 THEN 0
    ELSE CountBefore(i - 1) + SumCount(recList[i].rec_attributes,
                                       IF i = bi THEN bj ELSE Len(recList[i].rec_attributes))

(* C1: on a run that completes, no field attribute contributes a channel   *)
(* and every archive attribute read in a record body contributes exactly   *)
(* max(1, number of properties) channels, the properties being the         *)
(* whitespace-separated words of the trailing segment of its value; an     *)
(* archive value with nothing, or only a comma and blanks, after the       *)
(* period contributes one channel named after the record.                  *)
C1_ChannelCount ==
    /\ Len(group) = CountBefore(bi)
    /\ Completed =>
          /\ Len(outputFile[1].channels) = CountBefore(Len(recList))
          /\ \A i \in 1..Len(recList) : \A j \in 1..Len(recList[i].rec_attributes) :
                LET attr == recList[i].rec_attributes[j]
                IN  (IsArchive(attr) /\ WordCount(ClaimTrailing(attr.attr_value)) = 0) =>
                        /\ attr.properties = NoneList
                        /\ \E c \in Range(outputFile[1].channels) :
                              c.name = recList[i].rec_name /\ c.period = attr.period

C1_Witness ==
    /\ Completed
    /\ Len(recList) = 1
    /\ Len(recList[1].rec_attributes) = 2
    /\ recList[1].rec_attributes[1].attr_type = sField
    /\ LET a == recList[1].rec_attributes[2]
       IN  /\ IsArchive(a)
           /\ a.properties = NoneList
           /\ SubSeq(a.attr_value, Len(a.attr_value) - 1, Len(a.attr_value)) = <<",", " ">>
    /\ Len(outputFile[1].channels) = 1
    /\ outputFile[1].channels[1].name = recList[1].rec_name

(* The mode of a channel: the parsed mode in lower case.                   *)
ClaimMode(mode) == IF Classes(mode, 1, ModeMonitor) THEN sMonitor ELSE sScan

(* The channels of one attribute, in the order of its properties.          *)
ClaimChannels(rec, attr) ==
    IF ~IsArchive(attr) THEN <<>>
    ELSE IF attr.properties = NoneList
    THEN <<[name |-> rec.rec_name, period |-> attr.period, mode |-> ClaimMode(attr.mode)]>>
    ELSE [k \in 1..Len(attr.properties) |->
            [name |-> rec.rec_name \o <<".">> \o attr.properties[k],
             period |-> attr.period, mode |-> ClaimMode(attr.mode)]]

(* The channels of the first n attributes of a record, in insertion order. *)
RECURSIVE ClaimRecordChannels(_, _)
ClaimRecordChannels(rec, n) ==
    IF n = 0 THEN <<>>
    ELSE ClaimRecordChannels(rec, n - 1) \o ClaimChannels(rec, rec.rec_attributes[n])

(* The channels of the first n records, in record-list order.              *)
RECURSIVE ClaimFlat(_, _)
ClaimFlat(recs, n) ==
    IF n = 0 THEN <<>>
    ELSE ClaimFlat(recs, n - 1) \o ClaimRecordChannels(recs[n], Len(recs[n].rec_attributes))

(* C2: the channels of the single Default_Group are the flat sequence got  *)
(* by walking the records in list order, their attributes in insertion     *)
(* order and the properties in list order; a channel is named after the    *)
(* record, or record "." property, and carries the attribute's period      *)
(* unchanged and its mode in lower case.                                   *)
C2_FlatSequence ==
    /\ GroupBuilt => (group = ClaimFlat(recList, Len(recList)))
    /\ Completed =>
          /\ Len(outputFile) = 1
          /\ outputFile[1].group_name = sDefaultGroup
          /\ outputFile[1].channels = ClaimFlat(recList, Len(recList))

C2_Witness ==
    /\ Completed
    /\ Len(recList) = 2
    /\ recList[1].rec_name # recList[2].rec_name
    /\ Len(outputFile[1].channels) = 4
    /\ outputFile[1].channels[1].name = recList[1].rec_name \o <<".", "H", "I">>
    /\ outputFile[1].channels[4].name = recList[2].rec_name \o <<".", "L", "O">>
    /\ outputFile[1].channels[1].mode # recList[1].rec_attributes[1].mode

(* An archive attribute whose value passed the mode/period grammar.        *)
ValidArchive(attr) == IsArchive(attr) /\ ARCHPATTERN(attr.attr_value).ok

RECURSIVE ClaimValidRecordChannels(_, _)
ClaimValidRecordChannels(rec, n) ==
    IF n = 0 THEN <<>>
    ELSE ClaimValidRecordChannels(rec, n - 1) \o
            (IF ValidArchive(rec.rec_attributes[n])
             THEN ClaimChannels(rec, rec.rec_attributes[n]) ELSE <<>>)

RECURSIVE ClaimValidFlat(_, _)
ClaimValidFlat(recs, n) ==
    IF n = 0 THEN <<>>
    ELSE ClaimValidFlat(recs, n - 1) \o
            ClaimValidRecordChannels(recs[n], Len(recs[n].rec_attributes))

(* C3: an archive attribute whose value fails the mode/period grammar is   *)
(* skipped with a reported error and gives no channel, while the other     *)
(* attributes and records are processed and the run completes with their   *)
(* channels in the output: a run on which no open, read or write failed,   *)
(* no record was left unterminated and every channel name is ASCII (the    *)
(* document can be printed) ends with code 0 and the channels of the valid *)
(* attributes in the group, which is what is written.                      *)
C3_MalformedSkipped ==
    (pc = "exited" /\ Len(argv) = 2 /\ msgHandler \notin Range(stdout) /\ ~DumpRaises) =>
        /\ exitCode = 0
        /\ group = ClaimValidFlat(recList, Len(recList))
        /\ Written => (outputFile[1].channels = group)

(* End of input inside a record: a read is due and no line is left.        *)
EOFInRecord ==
    /\ AtEOF
    /\ IF pc = "while1" THEN ~HasOpenBrace(line)
       ELSE pc = "while2" /\ ~HasCloseBrace(line)

(* C4: when end of input is reached after a record header, before a line   *)
(* with "{" or before a line with "}", the condition is reported, the run  *)
(* exits with a nonzero code, the unterminated record is not added to the  *)
(* record list and no output file is written.                              *)
C4_Unterminated ==
    [][EOFInRecord =>
          /\ pc' = "exited"
          /\ exitCode' # 0
          /\ exitCode' # Running
          /\ stdout' = Append(stdout, msgHandler)
          /\ recList' = recList
          /\ outputFile' = <<>>]_vars

C4_Witness ==
    /\ pc = "exited"
    /\ exitCode = 2
    /\ f.bound
    /\ Len(f.lines) = 3
    /\ f.pos = 3
    /\ line = f.lines[3]
    /\ RECORD_SIGNATURE(f.lines[1]).ok
    /\ RECORD_SIGNATURE(f.lines[3]).ok
    /\ ~HasOpenBrace(f.lines[3])
    /\ Len(recList) = 1
    /\ outputFile = <<>>

(* C5: the process exits with code 2 and a diagnostic message when the     *)
(* argument is missing, when the input file cannot be opened and when the  *)
(* output file cannot be written (the document was printed and the open   *)
(* or the write of the file did not put the whole document in it), and     *)
(* exits with 0 only when the output was written.                          *)
C5_ExitCodes ==
    [][/\ (pc = "args" /\ pc' = "exited") =>
            (exitCode' = 2 /\ msgMissing \in Range(stdout'))
       /\ (pc = "open" /\ pc' = "exited") =>
            (exitCode' = 2 /\ msgHandler \in Range(stdout'))
       /\ (pc = "write" /\ ~DumpRaises /\ pc' = "exited" /\ ~Written') =>
            (exitCode' = 2 /\ msgHandler \in Range(stdout'))
       /\ (exitCode' = 0) => Written']_vars

(* The stem the output name is built on: the path without a trailing       *)
(* ".db", or the whole path when it does not end with ".db".               *)
ClaimStem(path) ==
    IF Len(path) >= 3 /\ SubSeq(path, Len(path) - 2, Len(path)) = sDotDb
    THEN SubSeq(path, 1, Len(path) - 3)
    ELSE path

(* C6: the output path is the input path with a trailing ".db" removed, if *)
(* present, and nothing else removed, followed by "_arch.xml".             *)
C6_OutputName ==
    (pc = "open") => (outputFilename = ClaimStem(argv[2]) \o sArchXml)

(* TYPE: the text between the first "(" and the first ",".                 *)
ClaimType(hdr) == SubSeq(hdr, FirstIndex(hdr, "(") + 1, FirstIndex(hdr, ",") - 1)

(* NAME: the text between that comma and the closing ")", without the      *)
(* surrounding whitespace and quotes.                                      *)
ClaimName(hdr) ==
    Unquoted(Stripped(SubSeq(hdr, FirstIndex(hdr, ",") + 1, LastIndex(hdr, ")") - 1)))

(* C7: the record created from a header record(TYPE, "NAME") or            *)
(* record(TYPE, NAME) has type TYPE, the text between the first "(" and    *)
(* the first ",", and name NAME with whitespace and quotes stripped.       *)
C7_HeaderParsed ==
    (pc = "while1") =>
        /\ eRecord.rec_type = ClaimType(line)
        /\ eRecord.rec_name = ClaimName(line)

(* C8: every archive attribute held on a record has mode and period       *)
(* present, the stored mode in lower case, "monitor" or "scan", and the    *)
(* stored period of the form [0-5][0-9]:[0-5][0-9]:[0-5][0-9].             *)
C8_ModePeriodPresent ==
    \A rec \in Range(HeldRecords) : \A attr \in Range(rec.rec_attributes) :
        IsArchive(attr) =>
            /\ attr.mode # None
            /\ attr.period # None
            /\ attr.mode \in {sMonitor, sScan}
            /\ Len(attr.period) = 8
            /\ Classes(attr.period, 1, PeriodClasses)

(* C9: every attribute held on a record is a plain attribute of kind       *)
(* "field" or an attribute of kind "info" named exactly "archive"; an info *)
(* attribute of any other name is never retained.                          *)
C9_OnlyFieldOrArchive ==
    \A rec \in Range(HeldRecords) : \A attr \in Range(rec.rec_attributes) :
        \/ attr.attr_type = sField
        \/ attr.attr_type = sInfo /\ attr.attr_name = sArchive

C9_Witness ==
    /\ pc = "for"
    /\ Len(recList) = 1
    /\ Len(recList[1].rec_attributes) = 2
    /\ recList[1].rec_attributes[1].attr_type = sField
    /\ recList[1].rec_attributes[2].attr_name = sArchive
    /\ \E k \in 1..f.pos :
          /\ ATTRIBUTE_SIGNATURE(f.lines[k]).ok
          /\ ATTRIBUTE_SIGNATURE(f.lines[k]).attr_type = sInfo
          /\ ATTRIBUTE_SIGNATURE(f.lines[k]).attr_name # sArchive

(* The header lines of the records completed in a text, in order: a header *)
(* closes at the first line with "}" at or after the first line with "{"   *)
(* at or after it, and the search for the next header resumes after that   *)
(* line; a header that does not close ends the list.                       *)
RECURSIVE ClaimClosed(_, _)
ClaimClosed(lines, i) ==
    IF i > Len(lines) THEN <<>>
    ELSE IF ~RECORD_SIGNATURE(lines[i]).ok THEN ClaimClosed(lines, i + 1)
    ELSE LET opens == {j \in i..Len(lines) : HasOpenBrace(lines[j])}
             closes == {k \in SetMin(opens)..Len(lines) : HasCloseBrace(lines[k])}
         IN  IF opens = {} THEN <<>>
             ELSE IF closes = {} THEN <<>>
             ELSE <<i>> \o ClaimClosed(lines, SetMin(closes) + 1)

ClaimHeaders ==
    LET lines == SubSeq(f.lines, 1, f.pos)
        idx == ClaimClosed(lines, 1)
    IN  [n \in 1..Len(idx) |->
            [rec_type |-> RECORD_SIGNATURE(lines[idx[n]]).r_type,
             rec_name |-> RECORD_SIGNATURE(lines[idx[n]]).r_name]]

(* C10: a record is appended to the record list exactly once and exactly   *)
(* when a line with "}" is reached after its header, the list holds the    *)
(* records in the order of their headers, each input line is consumed      *)
(* exactly once, and a line consumed while a record is open never opens    *)
(* another record.                                                         *)
C10_RecordLifecycle ==
    /\ [](pc = "for" =>
            [n \in 1..Len(recList) |->
                [rec_type |-> recList[n].rec_type, rec_name |-> recList[n].rec_name]]
            = ClaimHeaders)
    /\ [][/\ (recList' # recList) =>
                (pc = "while2" /\ HasCloseBrace(line) /\ recList' = Append(recList, eRecord))
          /\ (pc = "while2" /\ HasCloseBrace(line)) => (recList' = Append(recList, eRecord))
          /\ f.bound =>
                /\ f'.lines = f.lines
                /\ f'.pos \in {f.pos, f.pos + 1}
                /\ (f'.pos = f.pos + 1) => (line' = f.lines[f.pos + 1])
                /\ (f'.pos = f.pos) => (line' = line)
          /\ (pc \in {"while1", "while2"} /\ pc' \in {"while1", "while2"}) =>
                /\ eRecord'.rec_type = eRecord.rec_type
                /\ eRecord'.rec_name = eRecord.rec_name]_vars

C10_Witness ==
    /\ pc = "for"
    /\ f.pos = 4
    /\ RECORD_SIGNATURE(f.lines[1]).ok
    /\ ~HasOpenBrace(f.lines[1])
    /\ RECORD_SIGNATURE(f.lines[3]).ok
    /\ Len(recList) = 1
    /\ recList[1].rec_name = RECORD_SIGNATURE(f.lines[1]).r_name
    /\ recList[1].rec_name # RECORD_SIGNATURE(f.lines[3]).r_name


====
